---- MODULE Spec2Model ----
(***************************************************************************)
(* Model of the Agent class of packages/core/src/agents/Agents.ts: one     *)
(* agent instance, its conversation history, flags, tool registry and      *)
(* emitted events, driven by interleaved public calls.  Every action is    *)
(* one synchronous run of the code, from a call or the resumption of an    *)
(* await up to the next await or the settlement of the promise.            *)
(*                                                                         *)
(* Text is a sequence of string pieces (concatenation is \o).  Message ids *)
(* and timestamps are opaque values no code path of the agent branches on  *)
(* and are left out of the message records.                                *)
(***************************************************************************)
EXTENDS Integers, Sequences, FiniteSets, TLC

\* ---------------------------------------------------------------- bounds
MaxCalls == 4          \* public calls (chat, initialize and the others) in one behaviour
MaxChunks == 2         \* chunks one stream delivers
MaxDepth == 1          \* nested follow-up turns a caller's chat() may reach

Call == 1..MaxCalls

\* ------------------------------------------------------- program constants
DefaultTemperature == 7      \* 0.7, in tenths
DefaultTopP == 9             \* 0.9, in tenths
DefaultMaxTokens == 1000

Undefined == "undefined"
UndefinedNum == -1           \* an absent numeric option of the config
Null == "null"
TheEngine == "engine"

\* ------------------------------------------------------------ input sets
ToolNames == {"calc"}
UnknownTool == "nope"
UserTexts == {<<>>, <<"hi">>}
Deltas == {<<>>, <<"Hel">>, <<"lo">>}
Replies == {<<>>, <<"ok">>}
Streamings == BOOLEAN

\* JSON.parse succeeds on "{}" and throws on "{"
ValidJson == {"{}"}

TcCalc == [id |-> "a", name |-> "calc", arguments |-> "{}"]
TcBad == [id |-> "b", name |-> "calc", arguments |-> "{"]
TcNope == [id |-> "c", name |-> UnknownTool, arguments |-> "{}"]
ToolCallPool == {TcCalc, TcBad, TcNope}

\* tool_calls lists the engine may return in one response
Batches == {<<t>> : t \in ToolCallPool} \cup {<<TcNope, TcCalc>>, <<TcCalc, TcBad>>}

\* chunk.choices[0].delta of one streamed chunk
ChunkDeltas == [content : Deltas, tool_calls : {<<>>}]
                 \cup [content : {<<>>}, tool_calls : {<<TcCalc>>, <<TcNope>>}]

\* choices[0].message of a non-streaming completion
Completions == [content : Replies, tool_calls : {<<>>}]
                 \cup [content : {<<>>}, tool_calls : Batches]

\* the inputs of the specification that interleaves all public calls
FewUserTexts == {<<"hi">>}
FewChunkDeltas == {[content |-> <<"Hel">>, tool_calls |-> <<>>]}
FewCompletions == {[content |-> <<"ok">>, tool_calls |-> <<>>],
                   [content |-> <<>>, tool_calls |-> <<TcCalc>>]}
FewUpdates == {[temperature |-> 0]}

VARIABLES
  config,        \* this.config
  engine,        \* this.engine
  messages,      \* this.messages
  isLoaded,      \* this.isLoaded
  isStreaming,   \* this.isStreaming
  tools,         \* the keys of this.tools
  listening,     \* the listeners attached after construction are still attached
  call,          \* per chat() caller: position, locals, emitted events, result
  reloading,     \* initialize() calls awaiting engine.reload
  initLog,       \* the events the initialize() calls have emitted since the last one began
  initResult,    \* how the initialize() calls have settled since then, oldest first
  opLog,         \* the events the latest synchronous public call emitted
  saved,         \* the snapshot the caller last took with getState()
  used,          \* public calls made so far
  initDone,      \* an initialize() has succeeded and destroy() was not called since
  engineCalls,   \* completions.create invocations so far
  lastRequest    \* the request of the latest one

vars == <<config, engine, messages, isLoaded, isStreaming, tools, listening, call,
          reloading, initLog, initResult, opLog, saved, used, initDone, engineCalls,
          lastRequest>>

\* ---------------------------------------------------------------- helpers
Msg(role, content, toolCalls, toolCallId) ==
  [role |-> role, content |-> content, toolCalls |-> toolCalls, toolCallId |-> toolCallId]

\* this.emit(type, payload): the emit call, and whether the listeners attached
\* after construction receive it
Ev(type, data) == [type |-> type, data |-> data, heard |-> listening]

NoResult == [kind |-> "none", content |-> <<>>]
EmptyAssistant == [content |-> <<>>, toolCalls |-> <<>>]
IdleCall == [pc |-> "idle", message |-> <<>>, streaming |-> FALSE,
             assistantMessage |-> EmptyAssistant, idx |-> 0, depth |-> 0,
             chunks |-> <<>>, events |-> <<>>, result |-> NoResult]

\* the configs an agent is constructed with (id, name and model are fixed strings)
CfgPlain == [systemPrompt |-> Undefined, temperature |-> UndefinedNum, topP |-> UndefinedNum,
             maxTokens |-> UndefinedNum, tools |-> {}]
CfgFull == [systemPrompt |-> "sys", temperature |-> 5, topP |-> 8,
            maxTokens |-> 200, tools |-> ToolNames]
Configs == {CfgPlain, CfgFull}

\* the constructor's seeding of the history, lines 70-77
InitialMessages(cfg) ==
  IF cfg.systemPrompt # Undefined
  THEN <<Msg("system", <<cfg.systemPrompt>>, <<>>, Undefined)>>
  ELSE <<>>

\* isReady(), line 358
IsReady == isLoaded /\ ~isStreaming

\* getState() of this agent
Snapshot == [config |-> config, messages |-> messages, isLoaded |-> isLoaded,
             isStreaming |-> isStreaming]

\* a snapshot an earlier session of an agent with this config persisted after
\* its initialize() had succeeded
StoredSnapshot == [config |-> config, messages |-> InitialMessages(config),
                   isLoaded |-> TRUE, isStreaming |-> FALSE]

\* { ...this.config, ...updates }
Merge(cfg, updates) ==
  [f \in DOMAIN cfg |-> IF f \in DOMAIN updates THEN updates[f] ELSE cfg[f]]

\* value || fallback, for a number or undefined
OrDefault(value, fallback) == IF value = UndefinedNum \/ value = 0 THEN fallback ELSE value

\* Array.from(this.tools.values()).map(...) with tool_choice, lines 143-153
RequestTools(tls) == IF Cardinality(tls) > 0 THEN [tools |-> tls, tool_choice |-> "auto"]
                     ELSE [tools |-> {}, tool_choice |-> Undefined]

\* (mutant) the tool-call id is never copied
RequestMessageNoId(msg) ==
  [role |-> msg.role, content |-> msg.content, tool_call_id |-> Undefined]

\* the role/content(/tool_call_id) projection of one message, lines 126-135
RequestMessage(msg) ==
  [role |-> msg.role, content |-> msg.content,
   tool_call_id |-> IF msg.role = "tool" /\ msg.toolCallId # Undefined /\ msg.toolCallId # ""
                    THEN msg.toolCallId ELSE Undefined]

BuildRequest(msgs, cfg, tls, streaming) ==
  [messages |-> [i \in 1..Len(msgs) |-> RequestMessage(msgs[i])],
   temperature |-> OrDefault(cfg.temperature, DefaultTemperature),
   top_p |-> OrDefault(cfg.topP, DefaultTopP),
   max_tokens |-> OrDefault(cfg.maxTokens, DefaultMaxTokens),
   stream |-> streaming,
   tools |-> RequestTools(tls).tools,
   tool_choice |-> RequestTools(tls).tool_choice]

NoRequest == <<>>

\* the entry guards of chat(), lines 103 and 107
NotInitialized == engine = Null \/ ~isLoaded

\* (mutant) the busy guard is missing
BusyNeverSet == FALSE

Busy == isStreaming

\* JSON.parse(toolCall.arguments) returns normally
JsonParses(arguments) == arguments \in ValidJson

NotFoundMessage(tc) == Msg("tool", <<"Error: Tool '", tc.name, "' not found">>, <<>>, tc.id)
ToolErrorMessage(tc, err) == Msg("tool", <<"Error executing tool: ", err>>, <<>>, tc.id)
ToolResultMessage(tc, result) == Msg("tool", <<result>>, <<>>, tc.id)

\* what the not-found branch emits, lines 235-245
NotFoundEvents(tc) == <<>>

\* executeToolCalls from the i-th call on, up to the first awaited handler
\* or the end of the list: the messages and events of that synchronous run
\* (mutant) a failed tool call ends the batch
RECURSIVE ExecFromAborting(_, _, _, _, _)
ExecFromAborting(i, toolCalls, msgs, evs, tls) ==
  IF i > Len(toolCalls)
  THEN [messages |-> msgs, events |-> evs, idx |-> i, wait |-> FALSE]
  ELSE LET tc == toolCalls[i] IN
       IF tc.name \notin tls
       THEN [messages |-> Append(msgs, NotFoundMessage(tc)), events |-> evs,
             idx |-> Len(toolCalls) + 1, wait |-> FALSE]
       ELSE IF ~JsonParses(tc.arguments)
       THEN [messages |-> Append(msgs, ToolErrorMessage(tc, "SyntaxError")),
             events |-> Append(evs, Ev("tool-error", <<tc.id>>)),
             idx |-> Len(toolCalls) + 1, wait |-> FALSE]
       ELSE [messages |-> msgs, events |-> evs, idx |-> i, wait |-> TRUE]

RECURSIVE ExecFrom(_, _, _, _, _)
ExecFrom(i, toolCalls, msgs, evs, tls) ==
  IF i > Len(toolCalls)
  THEN [messages |-> msgs, events |-> evs, idx |-> i, wait |-> FALSE]
  ELSE LET tc == toolCalls[i] IN
       IF tc.name \notin tls
       THEN ExecFrom(i + 1, toolCalls, Append(msgs, NotFoundMessage(tc)),
                     evs \o NotFoundEvents(tc), tls)
       ELSE IF ~JsonParses(tc.arguments)
       THEN ExecFrom(i + 1, toolCalls,
                     Append(msgs, ToolErrorMessage(tc, "SyntaxError")),
                     Append(evs, Ev("tool-error", <<tc.id>>)), tls)
       ELSE [messages |-> msgs, events |-> evs, idx |-> i, wait |-> TRUE]

\* (mutant) the flag is not cleared on exit
FinallySkipped == isStreaming

\* the finally block of chat(), line 225
Finally == FALSE

\* (mutant) the catch block rethrows without emitting
ThrowSilently(c, rec, err, n) ==
  /\ isStreaming' = IF n > 0 THEN Finally ELSE isStreaming
  /\ call' = [call EXCEPT ![c] =
       [rec EXCEPT !.pc = "done",
                   !.result = [kind |-> err, content |-> <<>>]]]

\* an error leaves chat(): each of the n frames that are inside their try
\* block runs catch (emit 'error', rethrow) and finally (clear the flag)
Throw(c, rec, err, n) ==
  /\ isStreaming' = IF n > 0 THEN Finally ELSE isStreaming
  /\ call' = [call EXCEPT ![c] =
       [rec EXCEPT !.pc = "done",
                   !.events = @ \o [i \in 1..n |-> Ev("error", <<err>>)],
                   !.result = [kind |-> err, content |-> <<>>]]]

\* lines 207-220: the assistant message is complete; evs are the events of
\* the call so far
PostResponse(c, am, evs) ==
  IF Len(am.toolCalls) > 0
  THEN LET pushed == Append(messages, Msg("assistant", am.content, am.toolCalls, Undefined))
           r == ExecFrom(1, am.toolCalls, pushed,
                         Append(evs, Ev("message-added", <<"assistant">>)), tools)
       IN /\ messages' = r.messages
          /\ call' = [call EXCEPT ![c].assistantMessage = am,
                                  ![c].idx = r.idx,
                                  ![c].events = r.events,
                                  ![c].pc = IF r.wait THEN "handler" ELSE "toolsDone"]
          /\ UNCHANGED isStreaming
  ELSE /\ messages' = Append(messages, Msg("assistant", am.content, am.toolCalls, Undefined))
       /\ isStreaming' = Finally
       /\ call' = [call EXCEPT ![c].assistantMessage = am,
                               ![c].events = Append(evs, Ev("message-added", <<"assistant">>)),
                               ![c].pc = "done",
                               ![c].result = [kind |-> "ok", content |-> am.content]]

\* (mutant) the user message is pushed twice
PushUserTwice(message) ==
  Append(Append(messages, Msg("user", message, <<>>, Undefined)),
         Msg("user", message, <<>>, Undefined))

\* lines 115-122: the user message of the turn
PushUser(message) == Append(messages, Msg("user", message, <<>>, Undefined))
UserEvents(message) == <<Ev("message-added", <<"user">>)>>

\* chat(message, streaming) from its first line to the first await, entered
\* with d enclosing frames of the same caller inside their try blocks
ChatBody(c, message, streaming, d) ==
  LET rec == IF d = 0 THEN [call[c] EXCEPT !.message = message, !.streaming = streaming]
             ELSE call[c]
  IN
  IF NotInitialized
  THEN /\ Throw(c, rec, "notInit", d)
       /\ UNCHANGED <<messages, initDone, engineCalls, lastRequest>>
  ELSE IF Busy
  THEN /\ Throw(c, rec, "busy", d)
       /\ UNCHANGED <<messages, initDone, engineCalls, lastRequest>>
  ELSE /\ isStreaming' = TRUE
       /\ messages' = PushUser(message)
       /\ lastRequest' = <<BuildRequest(messages', config, tools, streaming)>>
       /\ engineCalls' = engineCalls + 1
       /\ call' = [call EXCEPT ![c] =
            [IdleCall EXCEPT !.pc = "create",
                             !.message = message,
                             !.streaming = streaming,
                             !.depth = d,
                             !.events = call[c].events \o UserEvents(message)
                                \o (IF streaming THEN <<Ev("streaming-start", <<>>)>>
                                    ELSE <<>>)]]

InFlightPcs == {"create", "stream", "handler", "toolsDone"}
InFlight == {c \in Call : call[c].pc \in InFlightPcs}

\* ------------------------------------------------------------------ Init
Init ==
  /\ config \in Configs
  /\ engine = Null
  /\ messages = InitialMessages(config)
  /\ isLoaded = FALSE
  /\ isStreaming = FALSE
  /\ tools = config.tools
  /\ listening = TRUE
  /\ call = [c \in Call |-> IdleCall]
  /\ reloading = 0
  /\ initLog = <<>>
  /\ initResult = <<>>
  /\ opLog = [t \in 1..Cardinality(config.tools) |->
                [type |-> "tool-registered", data |-> <<"calc">>, heard |-> FALSE]]
  /\ saved = <<>>
  /\ used = 0
  /\ initDone = FALSE
  /\ engineCalls = 0
  /\ lastRequest = NoRequest

\* --------------------------------------------------------------- actions
\* one more public call is made
Use == used < MaxCalls /\ used' = used + 1

\* a caller invokes chat(message, streaming)
Chat(c, message, streaming) ==
  /\ Use
  /\ call[c].pc = "idle"
  /\ \A b \in Call : b < c => call[b].pc # "idle"
  /\ ChatBody(c, message, streaming, 0)
  /\ UNCHANGED <<config, engine, isLoaded, tools, listening, reloading, initLog, initResult, opLog, saved,
                 initDone>>

\* engine.chat.completions.create(request) rejects
CreateRejects(c) ==
  /\ call[c].pc = "create"
  /\ Throw(c, call[c], "engine", call[c].depth + 1)
  /\ UNCHANGED <<config, engine, messages, isLoaded, tools, listening, reloading, initLog, initResult,
                 opLog, saved, used, initDone, engineCalls, lastRequest>>

\* the non-streaming completion arrives, lines 193-220
CompletionResolves(c, response) ==
  /\ call[c].pc = "create"
  /\ ~call[c].streaming
  /\ call[c].depth >= MaxDepth => response.tool_calls = <<>>
  /\ PostResponse(c, [content |-> response.content, toolCalls |-> response.tool_calls],
                  call[c].events)
  /\ UNCHANGED <<config, engine, isLoaded, tools, listening, reloading, initLog, initResult, opLog,
                 saved, used, initDone, engineCalls, lastRequest>>

\* the streaming create() resolves with the chunk iterator, line 166
StreamOpens(c) ==
  /\ call[c].pc = "create"
  /\ call[c].streaming
  /\ call' = [call EXCEPT ![c].pc = "stream"]
  /\ UNCHANGED <<config, engine, messages, isLoaded, isStreaming, tools, listening,
                 reloading, initLog, initResult, opLog, saved, used, initDone, engineCalls, lastRequest>>

\* (mutant) the delta replaces the accumulated content
ApplyChunkReplacing(am, delta) ==
  [content |-> IF delta.content # <<>> THEN delta.content ELSE am.content,
   toolCalls |-> IF delta.tool_calls # <<>> THEN delta.tool_calls ELSE am.toolCalls]

\* one pass of the for-await body, lines 170-189
ApplyChunk(am, delta) ==
  [content |-> IF delta.content # <<>> THEN am.content \o delta.content ELSE am.content,
   toolCalls |-> IF delta.tool_calls # <<>> THEN delta.tool_calls ELSE am.toolCalls]

ChunkEvents(delta) ==
  IF delta.content # <<>> THEN <<Ev("streaming-chunk", delta.content)>> ELSE <<>>

\* (mutant) the accumulating message is put in the history on every chunk
ChunkArrivesPushing(c, delta) ==
  /\ call[c].pc = "stream"
  /\ Len(call[c].chunks) < MaxChunks
  /\ call[c].depth >= MaxDepth => delta.tool_calls = <<>>
  /\ call' = [call EXCEPT ![c].assistantMessage = ApplyChunk(@, delta),
                          ![c].chunks = Append(@, delta),
                          ![c].events = @ \o ChunkEvents(delta)]
  /\ messages' = Append(messages, Msg("assistant", ApplyChunk(call[c].assistantMessage,
                                                               delta).content,
                                      <<>>, Undefined))
  /\ UNCHANGED <<config, engine, isLoaded, isStreaming, tools, listening,
                 reloading, initLog, initResult, opLog, saved, used, initDone, engineCalls,
                 lastRequest>>

\* a chunk of the stream arrives: one pass of the for-await body
ChunkArrives(c, delta) ==
  /\ call[c].pc = "stream"
  /\ Len(call[c].chunks) < MaxChunks
  /\ call[c].depth >= MaxDepth => delta.tool_calls = <<>>
  /\ call' = [call EXCEPT ![c].assistantMessage = ApplyChunk(@, delta),
                          ![c].chunks = Append(@, delta),
                          ![c].events = @ \o ChunkEvents(delta)]
  /\ UNCHANGED <<config, engine, messages, isLoaded, isStreaming, tools, listening,
                 reloading, initLog, initResult, opLog, saved, used, initDone, engineCalls, lastRequest>>

\* the chunk iterator is exhausted, lines 191 and 207-220
StreamEnds(c) ==
  /\ call[c].pc = "stream"
  /\ PostResponse(c, call[c].assistantMessage,
                  Append(call[c].events, Ev("streaming-end", <<>>)))
  /\ UNCHANGED <<config, engine, isLoaded, tools, listening, reloading, initLog, initResult, opLog,
                 saved, used, initDone, engineCalls, lastRequest>>

\* the chunk iterator throws
StreamFails(c) ==
  /\ call[c].pc = "stream"
  /\ Throw(c, call[c], "engine", call[c].depth + 1)
  /\ UNCHANGED <<config, engine, messages, isLoaded, tools, listening, reloading, initLog, initResult,
                 opLog, saved, used, initDone, engineCalls, lastRequest>>

\* the rest of executeToolCalls after the awaited handler settled
AfterHandler(c, msg, ev) ==
  LET am == call[c].assistantMessage
      r == ExecFrom(call[c].idx + 1, am.toolCalls, Append(messages, msg),
                    Append(call[c].events, ev), tools)
  IN /\ messages' = r.messages
     /\ call' = [call EXCEPT ![c].idx = r.idx,
                             ![c].events = r.events,
                             ![c].pc = IF r.wait THEN "handler" ELSE "toolsDone"]

\* tool.handler(args) resolves, lines 249-260
HandlerResolves(c) ==
  /\ call[c].pc = "handler"
  /\ LET tc == call[c].assistantMessage.toolCalls[call[c].idx]
     IN AfterHandler(c, ToolResultMessage(tc, "42"), Ev("tool-executed", <<tc.id>>))
  /\ UNCHANGED <<config, engine, isLoaded, isStreaming, tools, listening, reloading,
                 initLog, initResult, opLog, saved, used, initDone, engineCalls, lastRequest>>

\* tool.handler(args) rejects, lines 261-271
HandlerRejects(c) ==
  /\ call[c].pc = "handler"
  /\ LET tc == call[c].assistantMessage.toolCalls[call[c].idx]
     IN AfterHandler(c, ToolErrorMessage(tc, "HandlerError"), Ev("tool-error", <<tc.id>>))
  /\ UNCHANGED <<config, engine, isLoaded, isStreaming, tools, listening, reloading,
                 initLog, initResult, opLog, saved, used, initDone, engineCalls, lastRequest>>

\* executeToolCalls has returned: return await this.chat('', streaming), line 214
ContinueAfterTools(c) ==
  /\ call[c].pc = "toolsDone"
  /\ ChatBody(c, <<>>, call[c].streaming, call[c].depth + 1)
  /\ UNCHANGED <<config, engine, isLoaded, tools, listening, reloading, initLog, initResult, opLog, saved,
                 used, initDone>>

\* initialize(engine) up to the awaited reload, lines 84-89
Initialize ==
  /\ Use
  /\ reloading' = reloading + 1
  /\ engine' = TheEngine
  /\ initLog' = (IF reloading = 0 THEN <<>> ELSE initLog) \o <<Ev("model-loading", <<>>)>>
  /\ initResult' = IF reloading = 0 THEN <<>> ELSE initResult
  /\ UNCHANGED <<config, messages, isLoaded, isStreaming, tools, listening, call, opLog,
                 saved, initDone, engineCalls, lastRequest>>

\* engine.reload(model) resolves, lines 91-92
ReloadResolves ==
  /\ reloading > 0
  /\ reloading' = reloading - 1
  /\ isLoaded' = TRUE
  /\ initDone' = TRUE
  /\ initLog' = Append(initLog, Ev("initialized", <<>>))
  /\ initResult' = Append(initResult, "ok")
  /\ UNCHANGED <<config, engine, messages, isStreaming, tools, listening, call, opLog,
                 saved, used, engineCalls, lastRequest>>

\* (mutant) a failed reload still marks the agent loaded
ReloadRejectsSettingLoaded ==
  /\ reloading > 0
  /\ reloading' = reloading - 1
  /\ isLoaded' = TRUE
  /\ initLog' = Append(initLog, Ev("error", <<"reload">>))
  /\ initResult' = Append(initResult, "reload")
  /\ UNCHANGED <<config, engine, messages, isStreaming, tools, listening, call,
                 opLog, saved, used, initDone, engineCalls, lastRequest>>

\* engine.reload(model) rejects, lines 93-96
ReloadRejects ==
  /\ reloading > 0
  /\ reloading' = reloading - 1
  /\ initLog' = Append(initLog, Ev("error", <<"reload">>))
  /\ initResult' = Append(initResult, "reload")
  /\ UNCHANGED <<config, engine, messages, isLoaded, isStreaming, tools, listening, call,
                 opLog, saved, used, initDone, engineCalls, lastRequest>>

\* registerTool(tool), lines 278-281
RegisterTool(name) ==
  /\ Use
  /\ tools' = tools \cup {name}
  /\ opLog' = <<Ev("tool-registered", <<name>>)>>
  /\ UNCHANGED <<config, engine, messages, isLoaded, isStreaming, listening, call,
                 reloading, initLog, initResult, saved, initDone, engineCalls, lastRequest>>

\* (mutant) the event is emitted whether or not the name was registered
UnregisterToolAlwaysEmits(name) ==
  /\ Use
  /\ tools' = tools \ {name}
  /\ opLog' = <<Ev("tool-unregistered", <<name>>)>>
  /\ UNCHANGED <<config, engine, messages, isLoaded, isStreaming, listening, call,
                 reloading, initLog, initResult, saved, initDone, engineCalls, lastRequest>>

\* unregisterTool(name), lines 286-290
UnregisterTool(name) ==
  /\ Use
  /\ tools' = tools \ {name}
  /\ opLog' = IF name \in tools THEN <<Ev("tool-unregistered", <<name>>)>> ELSE <<>>
  /\ UNCHANGED <<config, engine, messages, isLoaded, isStreaming, listening, call,
                 reloading, initLog, initResult, saved, initDone, engineCalls, lastRequest>>

UpdateConfig(updates) ==
  /\ Use
  /\ config' = Merge(config, updates)
  /\ opLog' = <<Ev("config-updated", <<>>)>>
  /\ UNCHANGED <<engine, messages, isLoaded, isStreaming, tools, listening, call,
                 reloading, initLog, initResult, saved, initDone, engineCalls, lastRequest>>

\* (mutant) only the first message is kept
ClearHistoryKeepsFirst ==
  /\ Use
  /\ messages' = SubSeq(messages, 1, IF Len(messages) > 0 THEN 1 ELSE 0)
  /\ opLog' = <<Ev("history-cleared", <<>>)>>
  /\ UNCHANGED <<config, engine, isLoaded, isStreaming, tools, listening, call,
                 reloading, initLog, initResult, saved, initDone, engineCalls, lastRequest>>

\* (mutant) the history is emptied
ClearHistoryAll ==
  /\ Use
  /\ messages' = <<>>
  /\ opLog' = <<Ev("history-cleared", <<>>)>>
  /\ UNCHANGED <<config, engine, isLoaded, isStreaming, tools, listening, call,
                 reloading, initLog, initResult, saved, initDone, engineCalls, lastRequest>>

\* clearHistory(), lines 303-307
ClearHistory ==
  /\ Use
  /\ messages' = SelectSeq(messages, LAMBDA msg : msg.role = "system")
  /\ opLog' = <<Ev("history-cleared", <<>>)>>
  /\ UNCHANGED <<config, engine, isLoaded, isStreaming, tools, listening, call,
                 reloading, initLog, initResult, saved, initDone, engineCalls, lastRequest>>

\* getState(); the caller keeps the snapshot
GetState ==
  /\ Use
  /\ saved' = <<Snapshot>>
  /\ opLog' = <<>>
  /\ UNCHANGED <<config, engine, messages, isLoaded, isStreaming, tools, listening, call,
                 reloading, initLog, initResult, initDone, engineCalls, lastRequest>>

\* (mutant) the snapshot's streaming flag is restored too
RestoreStateWithFlag(state) ==
  /\ Use
  /\ config' = state.config
  /\ messages' = state.messages
  /\ isLoaded' = state.isLoaded
  /\ isStreaming' = state.isStreaming
  /\ opLog' = <<Ev("state-restored", <<>>)>>
  /\ UNCHANGED <<engine, tools, listening, call, reloading, initLog, initResult, saved,
                 initDone, engineCalls, lastRequest>>

\* (mutant) restoring marks the agent not-streaming
RestoreStateClearingFlag(state) ==
  /\ Use
  /\ config' = state.config
  /\ messages' = state.messages
  /\ isLoaded' = state.isLoaded
  /\ isStreaming' = FALSE
  /\ opLog' = <<Ev("state-restored", <<>>)>>
  /\ UNCHANGED <<engine, tools, listening, call, reloading, initLog, initResult, saved,
                 initDone, engineCalls, lastRequest>>

\* restoreState(state), lines 326-331
RestoreState(state) ==
  /\ Use
  /\ config' = state.config
  /\ messages' = state.messages
  /\ isLoaded' = state.isLoaded
  /\ opLog' = <<Ev("state-restored", <<>>)>>
  /\ UNCHANGED <<engine, isStreaming, tools, listening, call, reloading, initLog, initResult, saved,
                 initDone, engineCalls, lastRequest>>

\* (mutant) "destroyed" is emitted before the listeners are removed
DestroyEmittingFirst ==
  /\ Use
  /\ listening' = FALSE
  /\ engine' = Null
  /\ isLoaded' = FALSE
  /\ initDone' = FALSE
  /\ opLog' = <<Ev("destroyed", <<>>)>>
  /\ UNCHANGED <<config, messages, isStreaming, tools, call, reloading, initLog, initResult,
                 saved, engineCalls, lastRequest>>

\* destroy(), lines 364-369
Destroy ==
  /\ Use
  /\ listening' = FALSE
  /\ engine' = Null
  /\ isLoaded' = FALSE
  /\ initDone' = FALSE
  /\ opLog' = <<[type |-> "destroyed", data |-> <<>>, heard |-> FALSE]>>
  /\ UNCHANGED <<config, messages, isStreaming, tools, call, reloading, initLog, initResult, saved,
                 engineCalls, lastRequest>>

\* ------------------------------------------------------------------ Next
\* every public call, interleaved with the turns of the chat() callers
Next ==
  \/ \E c \in Call, message \in FewUserTexts, streaming \in Streamings :
       Chat(c, message, streaming)
  \/ \E c \in Call : CreateRejects(c)
  \/ \E c \in Call, response \in FewCompletions : CompletionResolves(c, response)
  \/ \E c \in Call : StreamOpens(c)
  \/ \E c \in Call, delta \in FewChunkDeltas : ChunkArrives(c, delta)
  \/ \E c \in Call : StreamEnds(c)
  \/ \E c \in Call : StreamFails(c)
  \/ \E c \in Call : HandlerResolves(c)
  \/ \E c \in Call : HandlerRejects(c)
  \/ \E c \in Call : ContinueAfterTools(c)
  \/ Initialize
  \/ ReloadResolves
  \/ ReloadRejects
  \/ \E name \in ToolNames : RegisterTool(name)
  \/ \E name \in ToolNames : UnregisterTool(name)
  \/ \E updates \in FewUpdates : UpdateConfig(updates)
  \/ ClearHistory
  \/ GetState
  \/ \E state \in {saved[i] : i \in DOMAIN saved} \cup {StoredSnapshot} : RestoreState(state)
  \/ Destroy

Spec == Init /\ [][Next]_vars

\* one caller's chat() with every engine response, chunk sequence and tool
\* outcome, while tools are registered and unregistered
NextTurn ==
  \/ \E message \in UserTexts, streaming \in Streamings : Chat(1, message, streaming)
  \/ CreateRejects(1)
  \/ \E response \in Completions : CompletionResolves(1, response)
  \/ StreamOpens(1)
  \/ \E delta \in ChunkDeltas : ChunkArrives(1, delta)
  \/ StreamEnds(1)
  \/ StreamFails(1)
  \/ HandlerResolves(1)
  \/ HandlerRejects(1)
  \/ ContinueAfterTools(1)
  \/ Initialize
  \/ ReloadResolves
  \/ ReloadRejects
  \/ \E name \in ToolNames \cup {UnknownTool} : RegisterTool(name)
  \/ \E name \in ToolNames \cup {UnknownTool} : UnregisterTool(name)

SpecTurn == Init /\ [][NextTurn]_vars

TypeOK ==
  /\ isLoaded \in BOOLEAN
  /\ isStreaming \in BOOLEAN
  /\ engine \in {Null, TheEngine}
  /\ reloading \in 0..MaxCalls
  /\ used \in 0..MaxCalls

\* ---------------------------------------------------------------- claims
\* a caller's chat() call is made in this step
Called(c) == call[c].pc = "idle" /\ call'[c].pc # "idle"

\* the call ran executeToolCalls on the tool calls of its response
TookToolPath(c) == call[c].idx >= 1 /\ Len(call[c].assistantMessage.toolCalls) > 0

EventsOfType(evs, types) == SelectSeq(evs, LAMBDA e : e.type \in types)
DataOf(evs) == [i \in 1..Len(evs) |-> evs[i].data]

\* C1: once the tool calls of a turn have been executed on an agent that is
\* still loaded, the turn issues a follow-up completion request to the engine
\* (and goes on to await its answer).
C1_FollowUpIssued ==
  [][\A c \in Call :
       (call[c].pc = "toolsDone" /\ call'[c].pc # "toolsDone" /\ ~NotInitialized)
         => (call'[c].pc = "create" /\ engineCalls' = engineCalls + 1)]_vars

\* C2 as stated: a chat() call made while another call is pending fails with
\* the busy error and leaves the history as it was.
C2_SecondCallBusy ==
  [][\A c \in Call :
       (Called(c) /\ InFlight # {})
         => (call'[c].pc = "done" /\ call'[c].result.kind = "busy"
             /\ messages' = messages)]_vars

\* C2 amended: a chat() call made while another call is pending at any of its
\* await points is rejected at the entry guards - with the busy error if the
\* agent is still loaded, with the not-initialized error if it no longer is -
\* and leaves the history, the busy flag and the engine untouched.
C2_SecondCallRejected ==
  [][\A c \in Call :
       (Called(c) /\ InFlight # {})
         => (/\ call'[c].pc = "done"
             /\ call'[c].result.kind = (IF NotInitialized THEN "notInit" ELSE "busy")
             /\ messages' = messages
             /\ isStreaming' = isStreaming
             /\ engineCalls' = engineCalls)]_vars

C2_Witness ==
  \E c, d \in Call :
    /\ c < d
    /\ call[c].pc = "handler"
    /\ call[d].pc = "done"
    /\ call[d].result.kind = "busy"

\* C3: at most one chat turn is between its entry guard and its cleanup, and
\* the busy flag stays set for as long as that turn is in flight, whatever
\* calls are interleaved with it.
C3_OneTurnInFlight ==
  /\ Cardinality(InFlight) <= 1
  /\ InFlight # {} => isStreaming

C3_Witness ==
  \E c, d \in Call :
    /\ c < d
    /\ call[c].pc \in InFlightPcs
    /\ call[d].pc = "done"
    /\ call[d].result.kind \in {"busy", "notInit"}
    /\ opLog # <<>>
    /\ isStreaming

\* C4: when no accepted chat() call is pending any more - each has settled by
\* returning, by an engine failure or through the tool-call path - the busy
\* flag is false, so the busy guard lets the next call pass.
C4_FlagClearedOnSettle == InFlight = {} => (~isStreaming /\ ~Busy)

C4_Witness ==
  \E c, d \in Call :
    /\ c < d
    /\ call[c].pc = "done"
    /\ TookToolPath(c)
    /\ call[d].pc = "done"
    /\ call[d].result.kind = "ok"
    /\ ~isStreaming

\* C5: every failure chat() has propagated to its caller - not-initialized,
\* busy or an engine failure - was preceded by exactly one "error" event of
\* that call carrying the error.
C5_OneErrorEventPerFailure ==
  \A c \in Call :
    (call[c].pc = "done" /\ call[c].result.kind \in {"notInit", "busy", "engine"})
      => DataOf(EventsOfType(call[c].events, {"error"})) = <<(<<call[c].result.kind>>)>>

\* C6: while no initialize() has succeeded since construction or since the
\* last destroy(), a chat() call fails with the not-initialized error, does
\* not invoke the engine and leaves the history and the busy flag unchanged.
C6_NotInitializedRejected ==
  [][\A c \in Call :
       (Called(c) /\ ~initDone)
         => (/\ call'[c].pc = "done"
             /\ call'[c].result.kind = "notInit"
             /\ engineCalls' = engineCalls
             /\ messages' = messages
             /\ isStreaming' = isStreaming)]_vars

\* C7: a turn started with the empty string adds no user-role message to
\* the history (and emits no "message-added" for one).
C7_EmptyMessageAddsNoUser ==
  [][\A c \in Call :
       (Called(c) /\ call'[c].pc = "create" /\ call'[c].message = <<>>)
         => (/\ messages' = messages
             /\ EventsOfType(call'[c].events, {"message-added"}) = <<>>)]_vars

\* C8: while and after a batch of tool calls is executed, the history ends
\* with the assistant message of the batch followed by one tool-role message
\* per tool call processed so far, the i-th carrying the id of the i-th call;
\* when the batch is finished that is one per call of the batch, whatever
\* the outcome of each call.
C8_ToolMessagesInOrder ==
  \A c \in Call :
    (TookToolPath(c) /\ call[c].depth = 0)
      => LET tcs == call[c].assistantMessage.toolCalls
             k == call[c].idx - 1
             n == Len(messages)
         IN /\ call[c].pc \in {"toolsDone", "done"} => k = Len(tcs)
            /\ n >= k + 1
            /\ messages[n - k].role = "assistant"
            /\ messages[n - k].toolCalls = tcs
            /\ \A i \in 1..k : /\ messages[n - k + i].role = "tool"
                               /\ messages[n - k + i].toolCallId = tcs[i].id
            /\ Cardinality({i \in 1..n : messages[i].role = "tool"}) = k

C8_Witness ==
  \E c \in Call :
    /\ call[c].pc = "toolsDone"
    /\ call[c].assistantMessage.toolCalls = <<TcNope, TcCalc>>
    /\ Len(messages) >= 3
    /\ messages[Len(messages) - 1].content = <<"Error: Tool '", UnknownTool, "' not found">>
    /\ messages[Len(messages)].content = <<"Error executing tool: ", "HandlerError">>

\* C9: every tool call of an executed batch has emitted exactly one of
\* "tool-error" and "tool-executed", in the order of the batch.
C9_OneToolEventPerCall ==
  \A c \in Call :
    (TookToolPath(c) /\ call[c].pc \in {"toolsDone", "done"})
      => DataOf(EventsOfType(call[c].events, {"tool-error", "tool-executed"}))
           = [i \in 1..Len(call[c].assistantMessage.toolCalls) |->
                <<call[c].assistantMessage.toolCalls[i].id>>]

\* the concatenation of the textual deltas of a chunk sequence
RECURSIVE Concat(_)
Concat(chunks) ==
  IF chunks = <<>> THEN <<>> ELSE Head(chunks).content \o Concat(Tail(chunks))

NonEmptyDeltas(chunks) ==
  LET kept == SelectSeq(chunks, LAMBDA d : d.content # <<>>)
  IN [i \in 1..Len(kept) |-> kept[i].content]

\* C10: during and after a streaming response the content of the assistant
\* message is the concatenation, in arrival order, of the textual deltas
\* received, and the "streaming-chunk" events emitted are exactly the
\* non-empty deltas, one event each, in the same order; the message appended
\* to the history and the value chat() resolves with carry that content.
C10_StreamAccumulates ==
  \A c \in Call :
    (call[c].streaming /\ call[c].depth = 0 /\ call[c].pc # "idle")
      => /\ call[c].assistantMessage.content = Concat(call[c].chunks)
         /\ DataOf(EventsOfType(call[c].events, {"streaming-chunk"}))
              = NonEmptyDeltas(call[c].chunks)
         /\ (call[c].pc = "done" /\ call[c].result.kind = "ok")
              => /\ call[c].result.content = Concat(call[c].chunks)
                 /\ messages[Len(messages)].role = "assistant"
                 /\ messages[Len(messages)].content = Concat(call[c].chunks)

C10_Witness ==
  \E c \in Call :
    /\ call[c].pc = "done"
    /\ call[c].result = [kind |-> "ok", content |-> <<"Hel", "lo">>]
    /\ Len(call[c].chunks) = 2
    /\ Len(EventsOfType(call[c].events, {"streaming-chunk"})) = 2

\* the streaming state a listener wired like the playground's derives from
\* the events it receives: set by "streaming-start", reset by "streaming-end"
\* and by "error"
RECURSIVE ListenerStreaming(_, _)
ListenerStreaming(evs, state) ==
  IF evs = <<>> THEN state
  ELSE LET e == Head(evs)
           next == IF ~e.heard THEN state
                   ELSE IF e.type = "streaming-start" THEN TRUE
                   ELSE IF e.type \in {"streaming-end", "error"} THEN FALSE
                   ELSE state
       IN ListenerStreaming(Tail(evs), next)

\* the place of an event in the sequence of one turn
Stage(e) ==
  IF e.type = "message-added" /\ e.data = <<"user">> THEN 1
  ELSE IF e.type = "streaming-start" THEN 2
  ELSE IF e.type = "streaming-chunk" THEN 3
  ELSE IF e.type = "streaming-end" THEN 4
  ELSE IF e.type = "message-added" THEN 5
  ELSE IF e.type \in {"tool-executed", "tool-error"} THEN 6
  ELSE 7

\* the same events as delivered while every listener is attached
AllHeard(evs) == [i \in 1..Len(evs) |-> [evs[i] EXCEPT !.heard = TRUE]]

\* a streaming call that passed the entry guards
StreamingTurn(c) == call[c].streaming /\ call[c].pc # "idle" /\ call[c].events # <<>>

\* C11 as stated: once a streaming turn has settled, a listener that tracked
\* the streaming state from the turn's events is not in the streaming state.
C11_ListenerNeverLeftStreaming ==
  \A c \in Call :
    (StreamingTurn(c) /\ call[c].pc = "done") => ~ListenerStreaming(call[c].events, FALSE)

\* C11 amended: the events a streaming turn emits come in the order
\* "message-added" (user), "streaming-start", "streaming-chunk"s,
\* "streaming-end", "message-added" (assistant), then tool events and at most
\* one "error", each of the single events at most once; when the turn has
\* settled, its "streaming-start" was followed by "streaming-end" or by
\* "error", a turn that resolved ends with "streaming-end" and the assistant's
\* "message-added", and a listener that is still attached is not left in the
\* streaming state.
C11_StreamingEventOrder ==
  \A c \in Call :
    StreamingTurn(c)
      => LET evs == call[c].events
             n == Len(evs)
         IN /\ Stage(evs[1]) = 1
            /\ n >= 2 /\ Stage(evs[2]) = 2
            /\ \A i \in 1..(n - 1) :
                 /\ Stage(evs[i]) <= Stage(evs[i + 1])
                 /\ Stage(evs[i]) \in {1, 2, 4, 5, 7} => Stage(evs[i]) < Stage(evs[i + 1])
            /\ call[c].pc = "done"
                 => /\ ~ListenerStreaming(AllHeard(evs), FALSE)
                    /\ listening => ~ListenerStreaming(evs, FALSE)
                    /\ call[c].result.kind = "ok"
                         => Stage(evs[n - 1]) = 4 /\ Stage(evs[n]) = 5

C11_Witness ==
  \E c \in Call :
    /\ call[c].pc = "done"
    /\ call[c].result.kind = "engine"
    /\ listening
    /\ [i \in 1..Len(call[c].events) |-> call[c].events[i].type]
         = <<"message-added", "streaming-start", "streaming-chunk", "error">>

\* C12: when a non-streaming chat(m, false) with non-empty m has resolved on
\* a completion without tool calls, the history is the history the call found
\* (the messages of its request but the last) followed by exactly two
\* messages, the user message with content m and the assistant message, and
\* the call resolved with the assistant content the engine returned.
C12_TwoMessagesAppended ==
  \A c \in Call :
    (/\ call[c].pc = "done" /\ call[c].result.kind = "ok"
     /\ ~call[c].streaming /\ call[c].message # <<>>)
      => LET n == Len(messages)
             sent == lastRequest[1].messages
         IN /\ n = Len(sent) + 1
            /\ \A i \in 1..(n - 2) : /\ messages[i].role = sent[i].role
                                     /\ messages[i].content = sent[i].content
                                     /\ messages[i].role # "user"
            /\ messages[n - 1] = Msg("user", call[c].message, <<>>, Undefined)
            /\ messages[n] = Msg("assistant", call[c].result.content, <<>>, Undefined)
            /\ call[c].result.content = call[c].assistantMessage.content
            /\ call[c].result.content \in Replies

C12_Witness ==
  \E c \in Call :
    /\ call[c].pc = "done"
    /\ ~call[c].streaming
    /\ call[c].message = <<"hi">>
    /\ call[c].result = [kind |-> "ok", content |-> <<"ok">>]
    /\ Len(messages) = 3
    /\ messages[1].role = "system"

\* a synchronous public call other than chat() and initialize() runs in this
\* step and emits an event of the given type
Emits(type) ==
  /\ used' = used + 1
  /\ call' = call
  /\ reloading' = reloading
  /\ opLog' # <<>>
  /\ opLog'[1].type = type

\* the positions of the system-role messages of a history
SystemAt(msgs) == {i \in 1..Len(msgs) : msgs[i].role = "system"}

\* C13: right after clearHistory() the history consists of the system-role
\* messages it held before the call, in their order, and of nothing else,
\* whether or not a chat turn is in flight.
C13_ClearKeepsSystemOnly ==
  [][Emits("history-cleared")
       => /\ SystemAt(messages') = 1..Len(messages')
          /\ Len(messages') = Cardinality(SystemAt(messages))
          /\ \A i \in 1..Len(messages') :
               \E j \in SystemAt(messages) :
                 /\ messages'[i] = messages[j]
                 /\ Cardinality({k \in SystemAt(messages) : k < j}) = i - 1]_vars

C13_Witness ==
  /\ opLog # <<>>
  /\ opLog[1].type = "history-cleared"
  /\ InFlight # {}
  /\ Len(messages) = 1
  /\ messages[1].role = "system"

\* C14: the system-role messages of the history are exactly what the
\* constructor seeded - none without a system prompt, otherwise that one
\* message - and the seeded message is the first of the history; no call,
\* clearHistory() included, removes or moves it.
C14_SystemMessageFirst ==
  /\ SystemAt(messages) \subseteq {1}
  /\ SelectSeq(messages, LAMBDA msg : msg.role = "system") = InitialMessages(config)

C14_Witness ==
  /\ opLog # <<>>
  /\ opLog[1].type = "state-restored"
  /\ saved # <<>>
  /\ messages = saved[1].messages
  /\ Len(messages) >= 3
  /\ messages[1].role = "system"
  /\ \E c \in Call : call[c].pc = "done" /\ call[c].result.kind = "ok"

\* C15 as stated: right after restoreState(s) the agent is marked
\* not-streaming, so that isReady() is the loaded flag.
C15_RestoredNotStreaming ==
  [][Emits("state-restored") => (~isStreaming' /\ (IsReady' <=> isLoaded'))]_vars

\* C15 amended: restoreState(s) replaces config, messages and the loaded flag
\* by those of s and leaves the streaming flag as it was, whatever
\* s.isStreaming is: the agent is not-streaming afterwards exactly when no
\* chat turn is in flight.
C15_RestoreKeepsStreamingFlag ==
  [][Emits("state-restored")
       => /\ \E s \in {saved[i] : i \in DOMAIN saved} \cup {StoredSnapshot} :
               /\ config' = s.config
               /\ messages' = s.messages
               /\ isLoaded' = s.isLoaded
          /\ isStreaming' = isStreaming
          /\ isStreaming' <=> (InFlight # {})
          /\ IsReady' <=> (isLoaded' /\ InFlight = {})]_vars

C15_Witness ==
  /\ opLog # <<>>
  /\ opLog[1].type = "state-restored"
  /\ saved # <<>>
  /\ saved[1].isStreaming
  /\ config = saved[1].config /\ messages = saved[1].messages /\ isLoaded = saved[1].isLoaded
  /\ ~isStreaming
  /\ IsReady

\* the number of events of a type in a log
CountOf(evs, type) == Len(EventsOfType(evs, {type}))

\* C16: initialize() emits "model-loading" and then awaits reload without
\* having set the loaded flag or settled; when reload resolves the call sets
\* the loaded flag, emits "initialized" and resolves; when reload rejects the
\* call emits "error" with the reload error, rejects with that error, neither
\* sets the loaded flag nor emits "initialized", and calls reload no more.
\* Every "initialized" and every "error" thus answers an earlier
\* "model-loading".
C16_InitializeEvents ==
  [][/\ reloading' = reloading + 1
        => /\ initLog'[Len(initLog')] = Ev("model-loading", <<>>)
           /\ engine' = TheEngine
           /\ isLoaded' = isLoaded
           /\ CountOf(initLog', "initialized") + CountOf(initLog', "error") = Len(initResult')
     /\ reloading' = reloading - 1
        => \/ /\ initResult' = Append(initResult, "ok")
              /\ initLog' = Append(initLog, Ev("initialized", <<>>))
              /\ isLoaded'
           \/ /\ initResult' = Append(initResult, "reload")
              /\ initLog' = Append(initLog, Ev("error", <<"reload">>))
              /\ isLoaded' = isLoaded
     /\ CountOf(initLog', "model-loading") = reloading' + Len(initResult')
     /\ CountOf(initLog', "initialized") = Len(SelectSeq(initResult', LAMBDA r : r = "ok"))
     /\ CountOf(initLog', "error") = Len(SelectSeq(initResult', LAMBDA r : r = "reload"))]_vars

C16_Witness ==
  /\ [i \in 1..Len(initLog) |-> initLog[i].type] = <<"model-loading", "error">>
  /\ initResult = <<"reload">>
  /\ reloading = 0
  /\ engine = TheEngine
  /\ ~isLoaded

\* C17: registerTool(t) adds t.name to the registry and emits
\* "tool-registered"; unregisterTool emits "tool-unregistered" only for a name
\* that is registered, and then removes just that name, so that unregistering
\* the tool registered by the previous call into an empty registry leaves the
\* registry empty; a call that emits nothing - unregisterTool of a name that
\* is not registered - leaves the registry as it was.
C17_RegisterUnregister ==
  [][/\ Emits("tool-registered")
        => /\ Len(opLog') = 1
           /\ tools' = tools \cup {opLog'[1].data[1]}
     /\ Emits("tool-unregistered")
        => LET name == opLog'[1].data[1]
           IN /\ Len(opLog') = 1
              /\ name \in tools
              /\ tools' = tools \ {name}
              /\ (opLog = <<Ev("tool-registered", <<name>>)>> /\ tools = {name}) => tools' = {}
     /\ (used' = used + 1 /\ call' = call /\ reloading' = reloading /\ opLog' = <<>>)
        => tools' = tools
     /\ tools' # tools => opLog' # <<>>]_vars

C17_Witness ==
  /\ config.tools = {}
  /\ tools = {}
  /\ opLog = <<Ev("tool-unregistered", <<UnknownTool>>)>>

\* C18: the tool-call list of a streaming assistant message holds every tool
\* call any chunk received so far has delivered, so that none is lost and
\* each gets executed once the stream has ended.
C18_ToolCallDeltasAccumulate ==
  \A c \in Call :
    (call[c].streaming /\ call[c].pc \in {"stream", "handler", "toolsDone", "done"})
      => \A i \in 1..Len(call[c].chunks) :
           \A j \in 1..Len(call[c].chunks[i].tool_calls) :
             \E k \in 1..Len(call[c].assistantMessage.toolCalls) :
               call[c].assistantMessage.toolCalls[k] = call[c].chunks[i].tool_calls[j]

\* what a request parameter is when the config's value is used if defined
\* and the default otherwise
Configured(value, fallback) == IF value # UndefinedNum THEN value ELSE fallback

\* C19: the request handed to the engine carries the config's temperature,
\* topP and maxTokens as they are at that moment whenever they are defined,
\* the value 0 included, and the defaults only for those left undefined.
C19_RequestUsesConfig ==
  [][engineCalls' = engineCalls + 1
       => /\ lastRequest'[1].temperature = Configured(config.temperature, DefaultTemperature)
          /\ lastRequest'[1].top_p = Configured(config.topP, DefaultTopP)
          /\ lastRequest'[1].max_tokens = Configured(config.maxTokens, DefaultMaxTokens)]_vars

\* C20: the request a turn hands to the engine lists the whole history as it
\* is once the turn's user message is appended - role and content of every
\* message in order, the tool-call id for the tool-role messages and for no
\* other, this turn's user message last - and carries the registered tools
\* with tool_choice "auto" exactly when the registry is non-empty then.
C20_RequestReflectsState ==
  [][engineCalls' = engineCalls + 1
       => LET r == lastRequest'[1]
              n == Len(messages')
          IN /\ Len(lastRequest') = 1
             /\ Len(r.messages) = n
             /\ n = Len(messages) + 1
             /\ \A i \in 1..Len(messages) : messages'[i] = messages[i]
             /\ \A i \in 1..n :
                  /\ r.messages[i].role = messages'[i].role
                  /\ r.messages[i].content = messages'[i].content
                  /\ r.messages[i].tool_call_id
                       = (IF messages'[i].role = "tool" THEN messages'[i].toolCallId
                          ELSE Undefined)
             /\ r.messages[n].role = "user"
             /\ \E c \in Call : /\ call'[c].pc = "create" /\ call[c].pc # "create"
                                /\ r.messages[n].content = call'[c].message
                                /\ r.stream = call'[c].streaming
             /\ tools' = tools
             /\ r.tools = tools
             /\ r.tool_choice = (IF tools # {} THEN "auto" ELSE Undefined)]_vars

C20_Witness ==
  /\ lastRequest # <<>>
  /\ engineCalls = 2
  /\ LET sent == lastRequest[1].messages
     IN /\ Len(sent) >= 4
        /\ sent[Len(sent)].role = "user"
        /\ sent[Len(sent) - 1].role = "tool"
        /\ sent[Len(sent) - 1].tool_call_id = "a"
        /\ sent[Len(sent) - 2].role = "assistant"
  /\ lastRequest[1].tool_choice = "auto"

\* the assistant-role messages of the history
AssistantAt(msgs) == {i \in 1..Len(msgs) : msgs[i].role = "assistant"}

\* C21: while a turn awaits the completion or consumes the chunks of its
\* stream, and after it has failed on the completion call or the chunk
\* iteration, the history is the one the turn's request listed - ending with
\* the turn's user message, without any assistant message of the turn; once
\* the response is complete the history holds exactly one assistant message
\* more, right after the user message, carrying the whole content received.
C21_NoPartialAssistantMessage ==
  \A c \in Call :
    (call[c].pc \in {"create", "stream", "handler", "toolsDone", "done"}
       /\ call[c].events # <<>>)
      => LET sent == lastRequest[1].messages
             n == Len(sent)
             whole == IF call[c].streaming THEN Concat(call[c].chunks)
                      ELSE call[c].assistantMessage.content
         IN /\ Len(messages) >= n
            /\ messages[n] = Msg("user", call[c].message, <<>>, Undefined)
            /\ AssistantAt(messages) \subseteq {n + 1}
            /\ (call[c].pc \in {"create", "stream"} \/ call[c].result.kind = "engine")
                 => Len(messages) = n
            /\ (call[c].pc \in {"handler", "toolsDone"} \/ call[c].result.kind \in {"ok", "busy"})
                 => /\ Len(messages) > n
                    /\ messages[n + 1].role = "assistant"
                    /\ messages[n + 1].content = whole

C21_Witness ==
  \E c \in Call :
    /\ call[c].pc = "done"
    /\ call[c].result.kind = "engine"
    /\ call[c].streaming
    /\ call[c].assistantMessage.content = <<"Hel">>
    /\ messages[Len(messages)] = Msg("user", call[c].message, <<>>, Undefined)
    /\ AssistantAt(messages) = {}

\* C22: whenever isReady() returns true, a chat() call made at that moment
\* passes both entry guards: it is rejected neither as not-initialized nor as
\* busy.
C22_ReadyImpliesGuardsPass == IsReady => (~NotInitialized /\ ~Busy)

\* the events a log gained in this step
Gained(old, new) ==
  IF new = old THEN <<>>
  ELSE IF Len(new) >= Len(old) /\ SubSeq(new, 1, Len(old)) = old
  THEN SubSeq(new, Len(old) + 1, Len(new))
  ELSE new

Unheard(evs) == \A i \in 1..Len(evs) : ~evs[i].heard

\* C23: destroy() has removed the listeners, cleared the engine reference and
\* the loaded flag by the time it emits "destroyed", so "destroyed" reaches no
\* listener attached before the call; the listeners stay removed, and every
\* event emitted from then on - by a chat turn that was in flight, by a
\* pending initialize() or by a later call - reaches none of them either.
C23_DestroyDetachesListeners ==
  [][/\ Emits("destroyed")
        => /\ ~listening'
           /\ engine' = Null
           /\ ~isLoaded'
           /\ Len(opLog') = 1
           /\ Unheard(opLog')
     /\ ~listening
        => /\ ~listening'
           /\ Unheard(Gained(opLog, opLog'))
           /\ Unheard(Gained(initLog, initLog'))
           /\ \A c \in Call : Unheard(Gained(call[c].events, call'[c].events))]_vars

C23_Witness ==
  /\ ~listening
  /\ \E c \in Call :
       /\ call[c].pc = "done"
       /\ Len(call[c].events) >= 3
       /\ call[c].events[2].type = "streaming-start"
       /\ call[c].events[2].heard
       /\ call[c].events[Len(call[c].events)].type \in {"message-added", "error"}
       /\ ~call[c].events[Len(call[c].events)].heard

====
